---------------------------- MODULE Spec2Model ----------------------------
(***************************************************************************)
(* Model of the file-tree-to-graph transformation of the RepoAnalyzer      *)
(* component (src/unnamed/part_000, generateGraphFromTree).                *)
(*                                                                         *)
(* A string is a sequence of one-character strings, so that split('/'),    *)
(* split('.').pop(), the template literal `${currentPath}/${part}` and the *)
(* truthiness of '' are computed as JavaScript computes them.              *)
(***************************************************************************)
EXTENDS Integers, Sequences, FiniteSets, TLC

VARIABLES tree,     \* the RepoFileTree[] handed to generateGraphFromTree
          pc,       \* "idle" before the call, "returned" after it
          graph,    \* the DataFlowGraph returned: [nodes, links]
          pathMap,  \* the call's local Map<string,string> when it returns
          calls,    \* the number of calls made so far in the session
          prevTree, \* the input of the call before the last input change
          prevGraph \* the graph that call returned

VARIABLES input,    \* the string handed to parseRepoInput
          parsed    \* what parseRepoInput returned for it, once it has

VARIABLES analyzer, \* the state of the mounted RepoAnalyzer component
          app,      \* the state of App: currentView, repoHistory, devStudioData
          pending,  \* the handleAnalyze and handleGenerate3D calls at an await
          loadMark  \* after loadFromHistory: the analyses in flight at the load

VARIABLES gate,     \* App's API key check, the ApiKeyModal and window.aistudio
          xray,     \* the state of the mounted CodeXRay component
          scans,    \* the handleScan calls at their await
          auditCall \* one call of auditCode: its request's outcome, its result

graphVars == <<tree, pc, graph, pathMap, calls, prevTree, prevGraph>>
parseVars == <<input, parsed>>
uiVars == <<analyzer, app, pending, loadMark>>
sideVars == <<gate, xray, scans, auditCall>>
vars == <<graphVars, parseVars, uiVars, sideVars>>

-----------------------------------------------------------------------------
(* Strings of the source *)

EmptyStr == << >>
Slash == "/"
Dot == "."

s_ts == <<"t","s">>
s_tsx == <<"t","s","x">>
s_js == <<"j","s">>
s_jsx == <<"j","s","x">>
s_css == <<"c","s","s">>
s_scss == <<"s","c","s","s">>
s_html == <<"h","t","m","l">>
s_json == <<"j","s","o","n">>
s_yml == <<"y","m","l">>
s_config == <<"c","o","n","f","i","g">>

CodeExts == <<s_ts, s_tsx, s_js, s_jsx>>
StyleExts == <<s_css, s_scss, s_html>>
DataExts == <<s_json, s_yml, s_config>>

RootId == <<"root">>
RootLabel == <<"r","o","o","t">>
RootNode == [id |-> RootId, group |-> 0, label |-> RootLabel]

\* `node_${n}`
NodeId(n) == <<"node_", n>>

SliceLimit == 100

-----------------------------------------------------------------------------
(* JavaScript primitives used by the function *)

\* String.prototype.split with a one-character separator: always at least
\* one piece, empty pieces kept.
RECURSIVE Split(_, _)
Split(s, sep) ==
    IF \A i \in 1..Len(s) : s[i] # sep
    THEN <<s>>
    ELSE LET i == CHOOSE k \in 1..Len(s) :
                      s[k] = sep /\ \A j \in 1..(k-1) : s[j] # sep
         IN  <<SubSeq(s, 1, i-1)>> \o Split(SubSeq(s, i+1, Len(s)), sep)

\* Array.prototype.pop on the fresh array a split returns: its last element.
Pop(arr) == arr[Len(arr)]

\* Array.prototype.includes
Includes(arr, x) == \E i \in 1..Len(arr) : arr[i] = x

\* Array.prototype.slice(0, n)
Slice0(arr, n) == SubSeq(arr, 1, IF Len(arr) < n THEN Len(arr) ELSE n)

\* Map.prototype.has / set
MapHas(m, k) == k \in DOMAIN m
MapSet(m, k, v) == [x \in (DOMAIN m) \cup {k} |-> IF x = k THEN v ELSE m[x]]

-----------------------------------------------------------------------------
(* generateGraphFromTree *)

\* Mutant: the slice is dropped, the whole list is visited.
limitedTreeUnsliced(t) == t

\* const limitedTree = tree.slice(0, 100)
limitedTree(t) == Slice0(t, SliceLimit)

\* Mutant: the path is not accumulated, the segment alone is the key.
NextPathSegmentOnly(currentPath, part) == part

\* currentPath = currentPath ? `${currentPath}/${part}` : part
NextPath(currentPath, part) ==
    IF currentPath # EmptyStr THEN currentPath \o <<Slash>> \o part ELSE part

\* Mutant: the piece after the first dot, split('.')[1], instead of the last one.
ExtAfterFirstDot(part) ==
    LET pieces == Split(part, Dot)
    IN  IF Len(pieces) >= 2 THEN pieces[2] ELSE pieces[1]

\* const ext = part.split('.').pop();  (ext || '') is ext: pop never yields
\* undefined on a split result
Ext(part) == Pop(Split(part, Dot))

\* let group = 1; if (isLast) { three ifs in sequence } else group = 5
GroupOf(part, isLast) ==
    IF isLast
    THEN LET ext == Ext(part)
             g1 == 1
             g2 == IF Includes(CodeExts, ext) THEN 2 ELSE g1
             g3 == IF Includes(StyleExts, ext) THEN 3 ELSE g2
             g4 == IF Includes(DataExts, ext) THEN 4 ELSE g3
         IN  g4
    ELSE 5

\* nodes.push({ id, label: part, group })
NewNode(id, part, group) == [id |-> id, group |-> group, label |-> part]

\* Mutant: source and target swapped.
NewLinkReversed(parentId, id) == [source |-> id, target |-> parentId, value |-> 1]

\* links.push({ source: parentId, target: id, value: 1 })
NewLink(parentId, id) == [source |-> parentId, target |-> id, value |-> 1]

\* Mutant: the has() test is dropped, every visited path counts as new.
IsNewPathAlways(m, currentPath) == TRUE

\* if (!pathMap.has(currentPath))
IsNewPath(m, currentPath) == ~MapHas(m, currentPath)

\* Mutant: the counter is read but not incremented.
AddNodeNoIncrement(st, currentPath, part, isLast, parentId) ==
    LET id == NodeId(st.nodeIdCounter)
    IN  [nodes         |-> Append(st.nodes, NewNode(id, part, GroupOf(part, isLast))),
         links         |-> Append(st.links, NewLink(parentId, id)),
         pathMap       |-> MapSet(st.pathMap, currentPath, id),
         nodeIdCounter |-> st.nodeIdCounter]

\* Mutant: the node is labelled with the cumulative path, not with the segment.
AddNodeLabelsPath(st, currentPath, part, isLast, parentId) ==
    LET id == NodeId(st.nodeIdCounter)
    IN  [nodes         |-> Append(st.nodes, NewNode(id, currentPath, GroupOf(part, isLast))),
         links         |-> Append(st.links, NewLink(parentId, id)),
         pathMap       |-> MapSet(st.pathMap, currentPath, id),
         nodeIdCounter |-> st.nodeIdCounter + 1]

\* The body of the if: allocate the id, register the path, push node and link.
AddNode(st, currentPath, part, isLast, parentId) ==
    LET id == NodeId(st.nodeIdCounter)
    IN  [nodes         |-> Append(st.nodes, NewNode(id, part, GroupOf(part, isLast))),
         links         |-> Append(st.links, NewLink(parentId, id)),
         pathMap       |-> MapSet(st.pathMap, currentPath, id),
         nodeIdCounter |-> st.nodeIdCounter + 1]

\* Mutant: the link is pushed outside the if, for a known path as well.
VisitPartAlwaysLinks(st, currentPath, part, isLast, parentId) ==
    IF IsNewPath(st.pathMap, currentPath)
    THEN AddNode(st, currentPath, part, isLast, parentId)
    ELSE [st EXCEPT !.links = Append(@, NewLink(parentId, st.pathMap[currentPath]))]

\* One iteration of parts.forEach: the state after the part at `index`.
VisitPart(st, currentPath, part, isLast, parentId) ==
    IF IsNewPath(st.pathMap, currentPath)
    THEN AddNode(st, currentPath, part, isLast, parentId)
    ELSE st

\* Mutant: parentId is never advanced, it stays 'root'.
NextParentStaysRoot(m, currentPath) == RootId

\* parentId = pathMap.get(currentPath)!
NextParent(m, currentPath) == m[currentPath]

\* parts.forEach((part, index) => ...), index counted from 1 here
RECURSIVE PartsForEach(_, _, _, _, _)
PartsForEach(st, parts, index, currentPath, parentId) ==
    IF index > Len(parts)
    THEN st
    ELSE LET part == parts[index]
             isLast == (index = Len(parts))
             path == NextPath(currentPath, part)
             st2 == VisitPart(st, path, part, isLast, parentId)
         IN  PartsForEach(st2, parts, index + 1, path,
                          NextParent(st2.pathMap, path))

\* The callback of limitedTree.forEach for one file
VisitFile(st, file) ==
    PartsForEach(st, Split(file.path, Slash), 1, EmptyStr, RootId)

\* limitedTree.forEach(file => ...) over files[lo..hi], in index order. The
\* range is halved so that the evaluation depth stays logarithmic; the files
\* are still visited first to last. TLC evaluates a LET definition on demand:
\* the test on `left` has the left half visited before the right half starts.
RECURSIVE FilesForEach(_, _, _, _)
FilesForEach(st, files, lo, hi) ==
    IF lo > hi THEN st
    ELSE IF lo = hi THEN VisitFile(st, files[lo])
    ELSE LET mid == (lo + hi) \div 2
             left == FilesForEach(st, files, lo, mid)
         IN  IF left.nodeIdCounter >= st.nodeIdCounter
             THEN FilesForEach(left, files, mid + 1, hi)
             ELSE left

\* Mutant: nodes starts empty, the root node is not put in.
InitialLocalsNoRootNode ==
    [nodes         |-> << >>,
     links         |-> << >>,
     pathMap       |-> [k \in {EmptyStr} |-> RootId],
     nodeIdCounter |-> 1]

\* Mutant: pathMap.set('', 'root') is left out.
InitialLocalsNoRootKey ==
    [nodes         |-> <<RootNode>>,
     links         |-> << >>,
     pathMap       |-> [k \in {} |-> RootId],
     nodeIdCounter |-> 1]

\* Mutant: nodeIdCounter is a module-level variable, it goes on counting from
\* where the call before left it.
InitialLocalsSharedCounter ==
    [nodes         |-> <<RootNode>>,
     links         |-> << >>,
     pathMap       |-> [k \in {EmptyStr} |-> RootId],
     nodeIdCounter |-> IF calls = 0 THEN 1 ELSE Len(graph.nodes)]

\* Mutant: pathMap is a module-level map, it keeps the paths of the call before.
InitialLocalsSharedMap ==
    [nodes         |-> <<RootNode>>,
     links         |-> << >>,
     pathMap       |-> IF calls = 0 THEN [k \in {EmptyStr} |-> RootId] ELSE pathMap,
     nodeIdCounter |-> 1]

\* The local state before the loop
InitialLocals ==
    [nodes         |-> <<RootNode>>,
     links         |-> << >>,
     pathMap       |-> [k \in {EmptyStr} |-> RootId],
     nodeIdCounter |-> 1]

\* The local state when the function returns
FinalLocals(t) ==
    LET files == limitedTree(t) IN FilesForEach(InitialLocals, files, 1, Len(files))

generateGraphFromTree(t) ==
    LET st == FinalLocals(t) IN [nodes |-> st.nodes, links |-> st.links]

\* The caller's list after the call: slice, split and forEach copy or read,
\* none writes to `tree` or to its entries
TreeAfterCall(t) == t

-----------------------------------------------------------------------------
(* parseRepoInput *)

Space == " "
Colon == ":"
s_github_com == <<"g","i","t","h","u","b",".","c","o","m">>

RECURSIVE TrimStart(_)
TrimStart(str) ==
    IF str # << >> /\ Head(str) = Space THEN TrimStart(Tail(str)) ELSE str

RECURSIVE TrimEnd(_)
TrimEnd(str) ==
    IF str # << >> /\ str[Len(str)] = Space
    THEN TrimEnd(SubSeq(str, 1, Len(str) - 1))
    ELSE str

\* String.prototype.trim
Trim(str) == TrimEnd(TrimStart(str))

\* Mutant: the trailing '/' is kept.
KeepTrailingSlash(str) == str

\* .replace(/\/$/, ''): one '/' at the end of the string is removed
ReplaceTrailingSlash(str) ==
    IF str # << >> /\ str[Len(str)] = Slash
    THEN SubSeq(str, 1, Len(str) - 1)
    ELSE str

cleanInput(str) == ReplaceTrailingSlash(Trim(str))

\* The position of the first occurrence of ch in str, 0 when there is none
IndexOf(str, ch) ==
    IF \E k \in 1..Len(str) : str[k] = ch
    THEN CHOOSE k \in 1..Len(str) :
             str[k] = ch /\ \A j \in 1..(k-1) : str[j] # ch
    ELSE 0

\* new URL(str) for the strings of the model, which are of the shape
\* scheme://host/path, host and path of lower-case letters, dots and '/', or
\* hold no ':' at all. Without a scheme the constructor throws (there is no
\* base URL); with one, hostname is the text between '//' and the next '/'
\* and pathname is the rest, '/' when there is none.
Throws == [throws |-> TRUE]
URL(str) ==
    LET c == IndexOf(str, Colon)
    IN  IF c > 1 /\ Len(str) >= c + 2 /\ str[c+1] = Slash /\ str[c+2] = Slash
             /\ \A k \in 1..(c-1) : str[k] \notin {Slash, Dot, Space}
        THEN LET rest == SubSeq(str, c + 3, Len(str))
                 h    == IndexOf(rest, Slash)
             IN  [throws   |-> FALSE,
                  hostname |-> IF h = 0 THEN rest ELSE SubSeq(rest, 1, h - 1),
                  pathname |-> IF h = 0 THEN <<Slash>> ELSE SubSeq(rest, h, Len(rest))]
        ELSE Throws

\* .filter(Boolean) on an array of strings: '' is the one falsy string
FilterBoolean(arr) == SelectSeq(arr, LAMBDA x : x # EmptyStr)

Null == [null |-> TRUE]
RepoDetails(o, r) == [owner |-> o, repo |-> r]

\* The try block: the value it returns, or Null when control leaves it
\* without a return (not github.com, fewer than two parts, or the catch)
FromUrl(clean) ==
    LET url == URL(clean)
    IN  IF url.throws THEN Null
        ELSE IF url.hostname = s_github_com
             THEN LET parts == FilterBoolean(Split(url.pathname, Slash))
                  IN  IF Len(parts) >= 2 THEN RepoDetails(parts[1], parts[2]) ELSE Null
             ELSE Null

\* The statements after the try block
FromToken(clean) ==
    LET parts == Split(clean, Slash)
    IN  IF Len(parts) = 2 /\ parts[1] # EmptyStr /\ parts[2] # EmptyStr
        THEN RepoDetails(parts[1], parts[2])
        ELSE Null

parseRepoInput(str) ==
    LET clean == cleanInput(str)
    IN  IF FromUrl(clean) # Null THEN FromUrl(clean) ELSE FromToken(clean)

-----------------------------------------------------------------------------
(* Inputs: the lists of file entries the function is applied to *)

MaxSegments == 4
MaxStems == 2
MaxTail == 2
MaxCalls == 2

SeqsUpTo(S, n) == UNION {[1..k -> S] : k \in 0..n}

\* The strings of ss joined by the one-character separator sep
RECURSIVE Join(_, _)
Join(ss, sep) ==
    IF Len(ss) = 1 THEN ss[1] ELSE ss[1] \o <<sep>> \o Join(Tail(ss), sep)

JoinSegs(segs) == Join(segs, Slash)

\* A RepoFileTree entry; `type` is never read by the function
Entry(p) == [path |-> p, type |-> "blob"]

\* Lists of paths holding up to n segments in all, empty segments
\* included ('a//b', 'a/', '/a', ''): the segments segs[i..], where a new
\* path starts after each position of `breaks`
SegNames == {EmptyStr, <<"a">>, <<"b">>, <<"a", Dot, "t", "s">>}
RECURSIVE PathsOfSegs(_, _, _)
PathsOfSegs(segs, breaks, i) ==
    IF i > Len(segs) THEN << >>
    ELSE LET rest == PathsOfSegs(segs, breaks, i + 1)
         IN  IF i = Len(segs) \/ i \in breaks
             THEN <<segs[i]>> \o rest
             ELSE <<segs[i] \o <<Slash>> \o Head(rest)>> \o Tail(rest)
TreeOfPaths(ps) == [j \in 1..Len(ps) |-> Entry(ps[j])]
NestedTrees(n) ==
    UNION {{TreeOfPaths(PathsOfSegs(segs, breaks, 1)) :
                breaks \in SUBSET (1..(Len(segs) - 1))} :
           segs \in SeqsUpTo(SegNames, n)}

\* File names: up to MaxStems pieces and a last piece, joined by dots; the
\* last piece ranges over every listed extension, an upper-case variant, a
\* plain letter and the empty string. Each name alone and under the folder 'a'.
StemPieces == {EmptyStr, <<"a">>, s_ts}
LastPieces == {EmptyStr, <<"a">>, <<"T","S">>,
               s_ts, s_tsx, s_js, s_jsx, s_css, s_scss, s_html, s_json, s_yml, s_config}
FileNames == {Join(stems \o <<last>>, Dot) :
                 stems \in SeqsUpTo(StemPieces, MaxStems), last \in LastPieces}
NamedTrees == {<<Entry(n)>> : n \in FileNames}
                \cup {<<Entry(<<"a", Slash>> \o n)>> : n \in FileNames}

\* Lists around the slice limit: SliceLimit-1, SliceLimit or SliceLimit+1 copies
\* of one entry, followed by up to MaxTail one-segment entries
Repeat(e, n) == [i \in 1..n |-> e]
TailNames == SegNames \cup {<<"c">>}
LongTrees ==
    {Repeat(Entry(p), k) \o tail :
        p \in SegNames \ {EmptyStr},
        k \in {SliceLimit - 1, SliceLimit, SliceLimit + 1},
        tail \in SeqsUpTo({Entry(q) : q \in TailNames}, MaxTail)}

\* The examples of the specification
s_src == <<"s","r","c">>
s_index_ts == <<"i","n","d","e","x",".","t","s">>
s_utils == <<"u","t","i","l","s">>
s_helpers_ts == <<"h","e","l","p","e","r","s",".","t","s">>
s_package_json == <<"p","a","c","k","a","g","e",".","j","s","o","n">>
s_README == <<"R","E","A","D","M","E">>
s_x_ts == <<"x",".","t","s">>
s_a_ts == <<"a",".","t","s">>
s_b_ts == <<"b",".","t","s">>
s_app_css == <<"a","p","p",".","c","s","s">>
s_styles == <<"s","t","y","l","e","s">>
s_settings_json == <<"s","e","t","t","i","n","g","s",".","j","s","o","n">>

EndToEndTree == <<Entry(JoinSegs(<<s_src, s_index_ts>>)),
                  Entry(JoinSegs(<<s_src, s_utils, s_helpers_ts>>)),
                  Entry(s_package_json)>>
DedupTree == <<Entry(JoinSegs(<<s_src, s_a_ts>>)), Entry(JoinSegs(<<s_src, s_b_ts>>))>>
SameLabelTree == <<Entry(JoinSegs(<<<<"a">>, s_x_ts>>)), Entry(JoinSegs(<<<<"b">>, s_x_ts>>))>>
FolderAsEntryTree == <<Entry(s_src), Entry(JoinSegs(<<s_src, s_a_ts>>))>>
ClassifyTree == <<Entry(JoinSegs(<<s_styles, s_app_css>>)),
                  Entry(JoinSegs(<<s_config, s_settings_json>>)),
                  Entry(s_README)>>
ExampleTrees == {EndToEndTree, DedupTree, SameLabelTree, FolderAsEntryTree, ClassifyTree}

Trees(n) == NestedTrees(n) \cup NamedTrees \cup LongTrees \cup ExampleTrees

-----------------------------------------------------------------------------
(* The state machine: one call of generateGraphFromTree on one input *)

NoGraph == [nodes |-> << >>, links |-> << >>]
NoMap == [k \in {} |-> RootId]

NotParsed == [parsed |-> FALSE]
ParseIdle == input = EmptyStr /\ parsed = NotParsed

\* A value that may be null: << >> for null, <<v>> for the value v
None == << >>
Some(v) == <<v>>

\* useState initial values of RepoAnalyzer
AnalyzerInit ==
    [repoInput         |-> EmptyStr,
     loading           |-> FALSE,
     error             |-> None,
     loadingStage      |-> "",
     infographicData   |-> None,
     infographic3DData |-> None,
     generating3D      |-> FALSE,
     currentFileTree   |-> None,
     currentRepoName   |-> EmptyStr]

\* useState initial values of App; reloadRequested is set once
\* window.location.reload() was called, the page is then on its way out
AppInit ==
    [currentView     |-> "HOME",
     repoHistory     |-> << >>,
     devStudioData   |-> None,
     reloadRequested |-> FALSE]

\* App past its key check with a key selected, as the other parts assume
GatePassed ==
    [aistudio     |-> Some([hasSelectedApiKey |-> TRUE, openSelectKey |-> TRUE]),
     keySelected  |-> TRUE,
     checkKey     |-> "done",
     checkingKey  |-> FALSE,
     hasApiKey    |-> TRUE,
     isConnecting |-> FALSE,
     handleConnect |-> "idle"]

\* SAMPLE_CODE, a text that is not blank
SampleCode == <<"f", "(", ")">>

\* useState initial values of CodeXRay
XRayInit ==
    [code      |-> SampleCode,
     loading   |-> FALSE,
     blueprint |-> None,
     audit     |-> None,
     activeTab |-> "input"]

NotCalled == [called |-> FALSE, outcome |-> None, result |-> None]
SideIdle ==
    /\ gate = GatePassed
    /\ xray = XRayInit
    /\ scans = {}
    /\ auditCall = NotCalled

UiIdle ==
    /\ analyzer = AnalyzerInit
    /\ app = AppInit
    /\ pending = {}
    /\ loadMark = None
    /\ SideIdle

InitOn(inputs) ==
    /\ ParseIdle
    /\ UiIdle
    /\ tree \in inputs
    /\ pc = "idle"
    /\ graph = NoGraph
    /\ pathMap = NoMap
    /\ calls = 0
    /\ prevTree = << >>
    /\ prevGraph = NoGraph

Init == InitOn(Trees(MaxSegments))

\* const graphData = generateGraphFromTree(currentFileTree)
Generate ==
    /\ pc = "idle"
    /\ LET st == FinalLocals(tree)
       IN  /\ graph' = [nodes |-> st.nodes, links |-> st.links]
           /\ pathMap' = st.pathMap
    /\ pc' = "returned"
    /\ tree' = TreeAfterCall(tree)
    /\ calls' = calls + 1
    /\ UNCHANGED <<prevTree, prevGraph>>
    /\ UNCHANGED <<parseVars, uiVars, sideVars>>

Next == Generate

Spec == Init /\ [][Next]_vars

\* A session: the component calls the function again, on the same list or
\* after setCurrentFileTree(fileTree) has put another list in place. The graph
\* and the map of the call before stay as they were returned.
SessionTrees ==
    ExampleTrees \cup SeqsUpTo({Entry(q) : q \in TailNames}, MaxTail)
                 \cup {Repeat(Entry(<<"a">>), SliceLimit + 1)}
LaterTrees == ExampleTrees \cup {<< >>}

NextInput(t) ==
    /\ pc = "returned"
    /\ calls < MaxCalls
    /\ tree' = t
    /\ prevTree' = tree
    /\ prevGraph' = graph
    /\ pc' = "idle"
    /\ UNCHANGED <<graph, pathMap, calls>>
    /\ UNCHANGED <<parseVars, uiVars, sideVars>>

SameInputAgain == NextInput(tree)
OtherInput == \E t \in LaterTrees : NextInput(t)

InitSession == InitOn(SessionTrees)
NextSession == Generate \/ SameInputAgain \/ OtherInput
SpecSession == InitSession /\ [][NextSession]_vars

-----------------------------------------------------------------------------
(* Inputs of parseRepoInput and the specification that applies it *)

MaxPad == 1
MaxTrailingSlashes == 2

s_https == <<"h","t","t","p","s",":">>
s_http == <<"h","t","t","p",":">>
s_gitlab_com == <<"g","i","t","l","a","b",".","c","o","m">>
s_tree == <<"t","r","e","e">>

Pads == {Repeat(Space, k) : k \in 0..MaxPad}
TrailingSlashes == {Repeat(Slash, k) : k \in 0..MaxTrailingSlashes}
Owners == {<<"o">>, <<"o","-","p">>}
Repos == {<<"r">>, <<"r",".","j","s">>}
Schemes == {s_https \o <<Slash, Slash>>, s_http \o <<Slash, Slash>>}
Hosts == {s_github_com, s_gitlab_com}
Rests == {EmptyStr, <<Slash>> \o s_tree}

\* 'owner/repo', also with a part missing and with a third part
Tokens == {o \o <<Slash>> \o r \o x : o \in Owners \cup {EmptyStr},
                                      r \in Repos \cup {EmptyStr}, x \in Rests}
          \cup Owners \cup {EmptyStr}
\* 'https://github.com/owner/repo', also without the scheme, on another host,
\* without the repo and with more path after it
Urls == {sc \o h \o <<Slash>> \o o \o x : sc \in Schemes \cup {EmptyStr}, h \in Hosts,
                                        o \in Owners, x \in Rests \cup {EmptyStr}}
        \cup {sc \o h \o <<Slash>> \o o \o <<Slash>> \o r \o x :
                  sc \in Schemes \cup {EmptyStr}, h \in Hosts,
                  o \in Owners, r \in Repos, x \in Rests}
RepoInputs ==
    {l \o body \o t \o r : l \in Pads, r \in Pads, t \in TrailingSlashes,
                           body \in Tokens \cup Urls}

InitParse ==
    /\ input \in RepoInputs
    /\ parsed = NotParsed
    /\ tree = << >>
    /\ pc = "idle"
    /\ graph = NoGraph
    /\ pathMap = NoMap
    /\ calls = 0
    /\ prevTree = << >>
    /\ prevGraph = NoGraph
    /\ UiIdle

Parse ==
    /\ parsed = NotParsed
    /\ parsed' = parseRepoInput(input)
    /\ UNCHANGED input
    /\ UNCHANGED <<graphVars, uiVars, sideVars>>

NextParse == Parse
SpecParse == InitParse /\ [][NextParse]_vars

-----------------------------------------------------------------------------
(* RepoAnalyzer and App: the handlers, their requests and the views *)

\* Requests are started as long as the history would stay within MaxHistory
\* items if every pending request added its item
MaxHistory == 2

\* What the user types: two repositories with files, one without, and a
\* string that is no 'owner/repo'
s_r == <<"r">>
s_q == <<"q">>
s_e == <<"e">>
TypedInputs == {<<"o", Slash>> \o s_r, <<"o", Slash>> \o s_q \o <<Slash>>,
                <<"o", Slash>> \o s_e, <<"o">>}

\* fetchRepoFileTree(owner, repo) when it resolves: the listing of the
\* repository, empty for a repository without code files
ListingOf(repo) ==
    IF repo = s_r THEN DedupTree
    ELSE IF repo = s_q THEN SameLabelTree
    ELSE << >>

\* generateInfographic(repoName, fileTree, style, is3D, language) when it
\* returns a payload: the image drawn for these arguments
Image(repoName, fileTree, is3D) ==
    [repoName |-> repoName, fileTree |-> fileTree, is3D |-> is3D]

\* What a rejected request throws: err.message, '' when there is none
ErrNotFound == "Requested entity was not found."
RejectMessages == {"Failed to fetch", "", ErrNotFound}
ErrInvalidFormat == "Invalid format. Use \"owner/repo\" or a full GitHub URL."
ErrNoFiles == "No relevant code files found in this repository."
ErrNoVisual == "Failed to generate visual."
ErrUnexpected == "An unexpected error occurred during analysis."

\* Mutant: handleApiError leaves the error as it is.
ErrorKept(message) == analyzer.error

\* handleApiError: setError(err.message || '...')
ErrorAfter(message) == Some(IF message # "" THEN message ELSE ErrUnexpected)

\* handleApiError: window.location.reload() after the user confirms the dialog
ReloadAfter(message, confirmSwitch) ==
    app.reloadRequested \/ (message = ErrNotFound /\ confirmSwitch)

\* Mutant: the new item is put behind the items already there.
AddToHistoryAtEnd(prev, repoName, imageData, is3D) ==
    Append(prev, [repoName |-> repoName, imageData |-> imageData, is3D |-> is3D])

\* addToHistory and handleAddRepoHistory: [item, ...prev]
AddToHistory(prev, repoName, imageData, is3D) ==
    <<[repoName |-> repoName, imageData |-> imageData, is3D |-> is3D]>> \o prev

\* A call of handleAnalyze or handleGenerate3D suspended at an await, with
\* the values its closure holds
Activation(id, kind, at, owner, repo, fileTree) ==
    [id |-> id, kind |-> kind, at |-> at, owner |-> owner, repo |-> repo,
     fileTree |-> fileTree, mounted |-> TRUE]

\* The component is unmounted: its state is gone (a later mount starts from
\* the initial values) and the setters of the calls still pending do nothing
Unmounted(p) == {[a EXCEPT !.mounted = FALSE] : a \in p}

\* The state a setter call of activation a leaves
SetBy(a, next) == IF a.mounted THEN next ELSE analyzer

\* The handlers of this part leave the variables of the other parts alone
OthersIdle == UNCHANGED <<graphVars, parseVars, sideVars>>

Live == ~app.reloadRequested
MayStartRequest == Len(app.repoHistory) + Cardinality(pending) < MaxHistory
\* The same count without the 3D requests still pending
MayStartAnalysis ==
    Len(app.repoHistory) + Cardinality({a \in pending : a.kind = "analyze"}) < MaxHistory
\* The number that tells a new call from the calls still pending
FreshId == CHOOSE n \in 1..(2 * MaxHistory) :
               /\ \A a \in pending : a.id # n
               /\ \A k \in 1..(n-1) : \E a \in pending : a.id = k
\* loadMark once the call a has ended
MarkWithout(a) == IF loadMark = None THEN None ELSE Some(loadMark[1] \ {a.id})
AnalyzerShown == Live /\ app.currentView = "REPO_ANALYZER"
\* {infographicData && !loading && (...)}: the results section is rendered
ResultsShown ==
    AnalyzerShown /\ analyzer.infographicData # None /\ ~analyzer.loading

\* onChange of the input
setRepoInput(str) ==
    /\ OthersIdle
    /\ AnalyzerShown
    /\ analyzer.repoInput # str
    /\ analyzer' = [analyzer EXCEPT !.repoInput = str]
    /\ UNCHANGED <<app, pending, loadMark>>

\* Mutant: handleAnalyze keeps what the page shows.
NotCleared == analyzer

\* The four setters handleAnalyze starts with
Cleared == [analyzer EXCEPT !.error = None,
                            !.infographicData = None,
                            !.infographic3DData = None,
                            !.currentFileTree = None]

\* handleAnalyze up to its first await; the submit button is disabled while
\* loading and for a blank input. mayStart bounds the requests started.
handleAnalyzeWhen(mayStart) ==
    /\ OthersIdle
    /\ AnalyzerShown
    /\ ~analyzer.loading
    /\ Trim(analyzer.repoInput) # EmptyStr
    /\ LET cleared == Cleared
           repoDetails == parseRepoInput(analyzer.repoInput)
       IN  IF repoDetails = Null
           THEN /\ analyzer' = [cleared EXCEPT !.error = Some(ErrInvalidFormat)]
                /\ UNCHANGED pending
           ELSE /\ mayStart
                /\ analyzer' = [cleared EXCEPT !.loading = TRUE,
                                               !.currentRepoName = repoDetails.repo,
                                               !.loadingStage = "CONNECTING TO GITHUB"]
                /\ pending' = pending \cup
                       {Activation(FreshId, "analyze", "fetch",
                                   repoDetails.owner, repoDetails.repo, << >>)}
    /\ UNCHANGED <<app, loadMark>>

handleAnalyze == handleAnalyzeWhen(MayStartRequest)

\* Mutant: the catch without the finally.
AnalyzeFailedNoFinally(a, message, confirmSwitch) ==
    /\ analyzer' = SetBy(a, [analyzer EXCEPT !.error = ErrorAfter(message)])
    /\ app' = [app EXCEPT !.reloadRequested = ReloadAfter(message, confirmSwitch)]
    /\ pending' = pending \ {a}
    /\ loadMark' = MarkWithout(a)

\* catch and finally of handleAnalyze
AnalyzeFailed(a, message, confirmSwitch) ==
    /\ analyzer' = SetBy(a, [analyzer EXCEPT !.error = ErrorAfter(message),
                                              !.loading = FALSE,
                                              !.loadingStage = ""])
    /\ app' = [app EXCEPT !.reloadRequested = ReloadAfter(message, confirmSwitch)]
    /\ pending' = pending \ {a}
    /\ loadMark' = MarkWithout(a)

\* fetchRepoFileTree rejects
FetchRejects(a, message, confirmSwitch) ==
    /\ OthersIdle
    /\ Live
    /\ a \in pending /\ a.kind = "analyze" /\ a.at = "fetch"
    /\ AnalyzeFailed(a, message, confirmSwitch)

\* fetchRepoFileTree resolves with an empty listing: the throw of line 123
FetchEmpty(a) ==
    /\ OthersIdle
    /\ Live
    /\ a \in pending /\ a.kind = "analyze" /\ a.at = "fetch"
    /\ Len(ListingOf(a.repo)) = 0
    /\ AnalyzeFailed(a, ErrNoFiles, FALSE)

\* fetchRepoFileTree resolves with files: on to generateInfographic
FetchResolves(a) ==
    /\ OthersIdle
    /\ Live
    /\ a \in pending /\ a.kind = "analyze" /\ a.at = "fetch"
    /\ LET fileTree == ListingOf(a.repo)
       IN  /\ Len(fileTree) # 0
           /\ analyzer' = SetBy(a, [analyzer EXCEPT
                                       !.currentFileTree = Some(fileTree),
                                       !.loadingStage = "ANALYZING STRUCTURE & GENERATING"])
           /\ pending' = (pending \ {a}) \cup
                  {[a EXCEPT !.at = "image", !.fileTree = fileTree]}
           /\ loadMark' = IF a.mounted /\ loadMark # None /\ a.id \notin loadMark[1]
                          THEN None ELSE loadMark
    /\ UNCHANGED app

\* generateInfographic returns a payload to handleAnalyze
ImageResolves(a) ==
    /\ OthersIdle
    /\ Live
    /\ a \in pending /\ a.kind = "analyze" /\ a.at = "image"
    /\ LET infographicBase64 == Image(a.repo, a.fileTree, FALSE)
       IN  /\ analyzer' = SetBy(a, [analyzer EXCEPT
                                       !.infographicData = Some(infographicBase64),
                                       !.loading = FALSE,
                                       !.loadingStage = ""])
           /\ app' = [app EXCEPT !.repoHistory =
                          AddToHistory(@, a.repo, infographicBase64, FALSE)]
    /\ pending' = pending \ {a}
    /\ loadMark' = MarkWithout(a)

\* generateInfographic returns null to handleAnalyze: the throw of line 135
ImageReturnsNull(a) ==
    /\ OthersIdle
    /\ Live
    /\ a \in pending /\ a.kind = "analyze" /\ a.at = "image"
    /\ AnalyzeFailed(a, ErrNoVisual, FALSE)

\* generateInfographic rejects in handleAnalyze
ImageRejects(a, message, confirmSwitch) ==
    /\ OthersIdle
    /\ Live
    /\ a \in pending /\ a.kind = "analyze" /\ a.at = "image"
    /\ AnalyzeFailed(a, message, confirmSwitch)

\* handleGenerate3D up to its await; the RENDER_MODEL button is rendered in
\* the results section while there is no 3D image and none is generated
handleGenerate3D ==
    /\ OthersIdle
    /\ ResultsShown
    /\ analyzer.infographic3DData = None
    /\ ~analyzer.generating3D
    /\ IF analyzer.currentFileTree = None \/ analyzer.currentRepoName = EmptyStr
       THEN UNCHANGED <<analyzer, pending>>
       ELSE /\ MayStartRequest
            /\ analyzer' = [analyzer EXCEPT !.generating3D = TRUE]
            /\ pending' = pending \cup
                   {Activation(FreshId, "render3D", "image", EmptyStr,
                               analyzer.currentRepoName, analyzer.currentFileTree[1])}
    /\ UNCHANGED <<app, loadMark>>

\* generateInfographic returns a payload to handleGenerate3D
Render3DResolves(a) ==
    /\ OthersIdle
    /\ Live
    /\ a \in pending /\ a.kind = "render3D"
    /\ LET data == Image(a.repo, a.fileTree, TRUE)
       IN  /\ analyzer' = SetBy(a, [analyzer EXCEPT !.infographic3DData = Some(data),
                                                     !.generating3D = FALSE])
           /\ app' = [app EXCEPT !.repoHistory = AddToHistory(@, a.repo, data, TRUE)]
    /\ pending' = pending \ {a}
    /\ loadMark' = MarkWithout(a)

\* generateInfographic returns null to handleGenerate3D: only the finally
Render3DReturnsNull(a) ==
    /\ OthersIdle
    /\ Live
    /\ a \in pending /\ a.kind = "render3D"
    /\ analyzer' = SetBy(a, [analyzer EXCEPT !.generating3D = FALSE])
    /\ pending' = pending \ {a}
    /\ loadMark' = MarkWithout(a)
    /\ UNCHANGED app

\* generateInfographic rejects in handleGenerate3D
Render3DRejects(a, message, confirmSwitch) ==
    /\ OthersIdle
    /\ Live
    /\ a \in pending /\ a.kind = "render3D"
    /\ analyzer' = SetBy(a, [analyzer EXCEPT !.error = ErrorAfter(message),
                                              !.generating3D = FALSE])
    /\ app' = [app EXCEPT !.reloadRequested = ReloadAfter(message, confirmSwitch)]
    /\ pending' = pending \ {a}
    /\ loadMark' = MarkWithout(a)

\* Mutant: the graph of the Dev Studio data already there is handed on.
GraphDataKept(fileTree) ==
    IF app.devStudioData # None
    THEN app.devStudioData[1].graphData
    ELSE generateGraphFromTree(fileTree)

\* const graphData = generateGraphFromTree(currentFileTree)
GraphDataFor(fileTree) == generateGraphFromTree(fileTree)

\* launchDevStudio with App's handleNavigate(ViewMode.DEV_STUDIO, data); the
\* view changes, so RepoAnalyzer is unmounted
launchDevStudio ==
    /\ OthersIdle
    /\ ResultsShown
    /\ IF analyzer.currentFileTree = None \/ analyzer.currentRepoName = EmptyStr
       THEN UNCHANGED <<analyzer, app, pending, loadMark>>
       ELSE /\ app' = [app EXCEPT
                          !.devStudioData =
                              Some([repoName  |-> analyzer.currentRepoName,
                                    fileTree  |-> analyzer.currentFileTree[1],
                                    graphData |-> GraphDataFor(analyzer.currentFileTree[1])]),
                          !.currentView = "DEV_STUDIO"]
            /\ analyzer' = AnalyzerInit
            /\ pending' = Unmounted(pending)
            /\ loadMark' = None

\* loadFromHistory(item), item one of the history entries rendered
loadFromHistory(i) ==
    /\ OthersIdle
    /\ AnalyzerShown
    /\ i \in 1..Len(app.repoHistory)
    /\ LET item == app.repoHistory[i]
       IN  analyzer' =
               IF item.is3D
               THEN [analyzer EXCEPT !.currentRepoName = item.repoName,
                                     !.infographic3DData = Some(item.imageData),
                                     !.currentFileTree = None]
               ELSE [analyzer EXCEPT !.currentRepoName = item.repoName,
                                     !.infographicData = Some(item.imageData),
                                     !.infographic3DData = None,
                                     !.currentFileTree = None]
    /\ loadMark' = Some({a.id : a \in {b \in pending : b.mounted /\ b.kind = "analyze"}})
    /\ UNCHANGED <<app, pending>>

\* setCurrentView(mode) of the header and the tabs, handleNavigate(mode) of
\* Home: leaving REPO_ANALYZER unmounts the component
Views == {"HOME", "REPO_ANALYZER", "CODE_XRAY"}
setCurrentView(mode) ==
    /\ OthersIdle
    /\ Live
    /\ mode # app.currentView
    /\ app' = [app EXCEPT !.currentView = mode]
    /\ IF app.currentView = "REPO_ANALYZER"
       THEN /\ analyzer' = AnalyzerInit
            /\ pending' = Unmounted(pending)
            /\ loadMark' = None
       ELSE UNCHANGED <<analyzer, pending, loadMark>>

InitAnalyzer ==
    /\ analyzer = AnalyzerInit
    /\ app = [AppInit EXCEPT !.currentView = "REPO_ANALYZER"]
    /\ pending = {}
    /\ loadMark = None
    /\ SideIdle
    /\ ParseIdle
    /\ tree = << >>
    /\ pc = "idle"
    /\ graph = NoGraph
    /\ pathMap = NoMap
    /\ calls = 0
    /\ prevTree = << >>
    /\ prevGraph = NoGraph

\* The steps of the page other than a submit of the form
OtherSteps ==
    \/ \E str \in TypedInputs : setRepoInput(str)
    \/ \E a \in pending, m \in RejectMessages, c \in BOOLEAN : FetchRejects(a, m, c)
    \/ \E a \in pending : FetchEmpty(a)
    \/ \E a \in pending : FetchResolves(a)
    \/ \E a \in pending : ImageResolves(a)
    \/ \E a \in pending : ImageReturnsNull(a)
    \/ \E a \in pending, m \in RejectMessages, c \in BOOLEAN : ImageRejects(a, m, c)
    \/ handleGenerate3D
    \/ \E a \in pending : Render3DResolves(a)
    \/ \E a \in pending : Render3DReturnsNull(a)
    \/ \E a \in pending, m \in RejectMessages, c \in BOOLEAN : Render3DRejects(a, m, c)
    \/ launchDevStudio
    \/ \E i \in 1..MaxHistory : loadFromHistory(i)
    \/ \E mode \in Views : setCurrentView(mode)
NextAnalyzer == handleAnalyze \/ OtherSteps
SpecAnalyzer == InitAnalyzer /\ [][NextAnalyzer]_vars

\* The same page where the form can be submitted while a 3D request is
\* pending: the submit button is disabled by loading only
NextOverlap == handleAnalyzeWhen(MayStartAnalysis) \/ OtherSteps
SpecOverlap == InitAnalyzer /\ [][NextOverlap]_vars

-----------------------------------------------------------------------------
(* App's key check and the ApiKeyModal *)

\* The parts of the page other than the one a specification is about, at rest
RestIdle ==
    /\ ParseIdle
    /\ analyzer = AnalyzerInit
    /\ app = AppInit
    /\ pending = {}
    /\ loadMark = None
    /\ tree = << >>
    /\ pc = "idle"
    /\ graph = NoGraph
    /\ pathMap = NoMap
    /\ calls = 0
    /\ prevTree = << >>
    /\ prevGraph = NoGraph

\* window.aistudio: absent, or an object with or without each method
AiStudios ==
    {None} \cup {Some([hasSelectedApiKey |-> h, openSelectKey |-> o]) : h, o \in BOOLEAN}

\* window.aistudio && window.aistudio.<method>
HasMethod(method) == gate.aistudio # None /\ gate.aistudio[1][method]

\* useState initial values of App and ApiKeyModal on a page with the given
\* window.aistudio; keySelected is what hasSelectedApiKey() would answer
GateInit(aistudio, keySelected) ==
    [aistudio      |-> aistudio,
     keySelected   |-> keySelected,
     checkKey      |-> "start",
     checkingKey   |-> TRUE,
     hasApiKey     |-> FALSE,
     isConnecting  |-> FALSE,
     handleConnect |-> "idle"]

\* {!hasApiKey && <ApiKeyModal .../>} below the early return for checkingKey
ModalShown == ~gate.checkingKey /\ ~gate.hasApiKey

GateOnly == UNCHANGED <<graphVars, parseVars, uiVars, xray, scans, auditCall>>

\* checkKey, run by the effect on mount, up to its await or to its end
checkKey ==
    /\ GateOnly
    /\ gate.checkKey = "start"
    /\ gate' = IF HasMethod("hasSelectedApiKey")
               THEN [gate EXCEPT !.checkKey = "awaiting"]
               ELSE [gate EXCEPT !.hasApiKey = FALSE,
                                 !.checkingKey = FALSE,
                                 !.checkKey = "done"]

\* hasSelectedApiKey() resolves
CheckKeyResolves ==
    /\ GateOnly
    /\ gate.checkKey = "awaiting"
    /\ gate' = [gate EXCEPT !.hasApiKey = gate.keySelected,
                            !.checkingKey = FALSE,
                            !.checkKey = "done"]

\* hasSelectedApiKey() rejects: checkKey has no catch, nothing is set
CheckKeyRejects ==
    /\ GateOnly
    /\ gate.checkKey = "awaiting"
    /\ gate' = [gate EXCEPT !.checkKey = "rejected"]

\* handleConnect up to its await or, without openSelectKey, to its end; the
\* button is disabled while isConnecting
handleConnect ==
    /\ GateOnly
    /\ ModalShown
    /\ ~gate.isConnecting
    /\ gate' = IF HasMethod("openSelectKey")
               THEN [gate EXCEPT !.isConnecting = TRUE, !.handleConnect = "awaiting"]
               ELSE [gate EXCEPT !.isConnecting = TRUE]

\* openSelectKey() resolves, the user having picked a key or not: the timer
\* of 500 ms is set
OpenSelectKeyResolves(picked) ==
    /\ GateOnly
    /\ gate.handleConnect = "awaiting"
    /\ gate' = [gate EXCEPT !.keySelected = @ \/ picked,
                            !.handleConnect = "timer"]

\* openSelectKey() rejects: the catch
OpenSelectKeyRejects ==
    /\ GateOnly
    /\ gate.handleConnect = "awaiting"
    /\ gate' = [gate EXCEPT !.isConnecting = FALSE, !.handleConnect = "idle"]

\* The timer fires: onKeySelected() is App's setHasApiKey(true), and the
\* modal is unmounted
onKeySelected ==
    /\ GateOnly
    /\ gate.handleConnect = "timer"
    /\ gate' = [gate EXCEPT !.hasApiKey = TRUE,
                            !.isConnecting = FALSE,
                            !.handleConnect = "idle"]


-----------------------------------------------------------------------------
(* auditCode of geminiService: the request, response.text and JSON.parse *)

\* The characters of the JSON texts
Quote == "\""
Comma == ","
Digits == <<"0", "1", "2", "3", "4", "5", "6", "7", "8", "9">>
s_null == <<"n", "u", "l", "l">>
s_score == <<"s", "c", "o", "r", "e">>
s_complexity == <<"c", "o", "m", "p", "l", "e", "x", "i", "t", "y">>
s_vulnerabilities == <<"v", "u", "l", "n", "e", "r", "a", "b", "i", "l", "i", "t", "i", "e", "s">>
s_optimizations == <<"o", "p", "t", "i", "m", "i", "z", "a", "t", "i", "o", "n", "s">>
s_summary == <<"s", "u", "m", "m", "a", "r", "y">>

\* JSON text of a number 0, 1, 2, ...
RECURSIVE NumberText(_)
NumberText(n) ==
    IF n < 10 THEN <<Digits[n + 1]>>
    ELSE NumberText(n \div 10) \o <<Digits[(n % 10) + 1]>>

\* JSON text of a string without characters to escape
StringText(str) == <<Quote>> \o str \o <<Quote>>

\* JSON text of an array of such strings
RECURSIVE ElementsText(_)
ElementsText(strs) ==
    IF strs = << >> THEN << >>
    ELSE IF Len(strs) = 1 THEN StringText(strs[1])
    ELSE StringText(strs[1]) \o <<Comma>> \o ElementsText(Tail(strs))
ArrayText(strs) == <<"[">> \o ElementsText(strs) \o <<"]">>

MemberText(key, valueText) == StringText(key) \o <<Colon>> \o valueText

\* The JSON text of a value: null for None, the object of a CodeAudit for Some
JsonText(value) ==
    IF value = None THEN s_null
    ELSE LET a == value[1]
         IN  <<"{">> \o MemberText(s_score, NumberText(a.score))
                   \o <<Comma>> \o MemberText(s_complexity, StringText(a.complexity))
                   \o <<Comma>> \o MemberText(s_vulnerabilities, ArrayText(a.vulnerabilities))
                   \o <<Comma>> \o MemberText(s_optimizations, ArrayText(a.optimizations))
                   \o <<Comma>> \o MemberText(s_summary, StringText(a.summary))
                   \o <<"}">>

\* The audits a response may carry, and the values its text may stand for
Scores == {0, 7, 100}
Complexities == {<<"L", "o", "w">>, <<"C", "r", "i", "t", "i", "c", "a", "l">>}
Findings == {<< >>, <<<<"e", "v", "a", "l">>>>, <<<<"e", "v", "a", "l">>, <<"x", "s", "s">>>>}
Advice == {<< >>, <<<<"c", "a", "c", "h", "e">>>>}
Audits ==
    {[score |-> n, complexity |-> c, vulnerabilities |-> v, optimizations |-> o,
      summary |-> <<"s">>] : n \in Scores, c \in Complexities, v \in Findings, o \in Advice}
JsonValues == {None} \cup {Some(a) : a \in Audits}

\* JSON.parse on the texts of the model: the value a text stands for, a
\* SyntaxError for a text that stands for none
JSONParse(text) ==
    IF \E value \in JsonValues : JsonText(value) = text
    THEN [throws |-> FALSE,
          value  |-> CHOOSE value \in JsonValues : JsonText(value) = text]
    ELSE [throws |-> TRUE, value |-> None]

\* The object the catch of auditCode returns
AuditFallback ==
    [rejects |-> FALSE,
     value   |-> Some([score           |-> 0,
                       complexity      |-> <<"U", "n", "k", "n", "o", "w", "n">>,
                       vulnerabilities |-> <<<<"A", "u", "d", "i", "t", " ", "f", "a", "i", "l", "e", "d">>>>,
                       optimizations   |-> << >>,
                       summary         |-> <<"A", "n", "a", "l", "y", "s", "i", "s", " ", "f", "a", "i", "l", "e", "d", ".">>])]

\* What generateContent does for auditCode: it rejects, or it resolves with
\* a response whose text is undefined (None) or a string
RequestRejected == [settled |-> "rejected", text |-> None]
Response(text) == [settled |-> "resolved", text |-> text]

\* auditCode(code) from its try on, for the outcome of its request
auditCode(outcome) ==
    IF outcome.settled = "rejected" THEN AuditFallback
    ELSE IF outcome.text # None /\ outcome.text[1] # EmptyStr
         THEN LET parsed_ == JSONParse(outcome.text[1])
              IN  IF parsed_.throws THEN AuditFallback
                  ELSE [rejects |-> FALSE, value |-> parsed_.value]
         ELSE [rejects |-> FALSE, value |-> None]

\* The texts of the responses: the JSON texts of the values, whole or cut off
ResponseTexts ==
    UNION {{SubSeq(JsonText(value), 1, k) : k \in 0..Len(JsonText(value))} :
               value \in JsonValues}
Outcomes ==
    {RequestRejected, Response(None)} \cup {Response(Some(t)) : t \in ResponseTexts}

AuditOnly == UNCHANGED <<graphVars, parseVars, uiVars, gate, xray, scans>>

\* One call of auditCode
Audit ==
    /\ AuditOnly
    /\ ~auditCall.called
    /\ auditCall' = [auditCall EXCEPT !.called = TRUE,
                                      !.result = auditCode(auditCall.outcome)]

InitAudit ==
    /\ RestIdle
    /\ gate = GatePassed
    /\ xray = XRayInit
    /\ scans = {}
    /\ \E outcome \in Outcomes :
           auditCall = [called |-> FALSE, outcome |-> outcome, result |-> None]
NextAudit == Audit
SpecAudit == InitAudit /\ [][NextAudit]_vars

-----------------------------------------------------------------------------
(* CodeXRay: handleScan with generateCodeBlueprint and auditCode *)

\* What the textarea may hold
Codes == {EmptyStr, <<Space>>, SampleCode, <<"g">>}

\* What auditCode's request may do during a scan
SampleAudit ==
    [score |-> 7, complexity |-> <<"L", "o", "w">>, vulnerabilities |-> << >>,
     optimizations |-> << >>, summary |-> <<"s">>]
ScanOutcomes == {RequestRejected, Response(None), Response(Some(JsonText(Some(SampleAudit))))}

\* The two promises handed to Promise.all
Waiting == [state |-> "pending", value |-> None]
Fulfilled(value) == [state |-> "fulfilled", value |-> value]

\* A call of handleScan suspended at its await, with the code it was started for
Scan(code) == [code |-> code, bp |-> Waiting, ad |-> Waiting]

XRayShown == ~gate.checkingKey /\ app.currentView = "CODE_XRAY"
XRayOnly == UNCHANGED <<graphVars, parseVars, uiVars, gate, auditCall>>

\* onChange of the textarea and the CLEAR button
setCode(code) ==
    /\ XRayOnly
    /\ XRayShown
    /\ xray.code # code
    /\ xray' = [xray EXCEPT !.code = code]
    /\ UNCHANGED scans

\* Mutant: what Promise.allSettled would leave when the blueprint is
\* rejected: the audit already returned is shown.
ScanRejectedKeepsAudit(s) ==
    [xray EXCEPT !.audit = IF s.ad.state = "fulfilled" /\ s.ad.value # None
                           THEN Some([code |-> s.code, report |-> s.ad.value[1]])
                           ELSE @,
                 !.loading = FALSE]

\* Promise.all rejects: the catch and the finally
ScanRejected(s) == [xray EXCEPT !.loading = FALSE]

\* Promise.all resolves with [bp, ad]: setBlueprint(bp), setAudit(ad) and
\* the finally; the image and the report are those of the code scanned
ScanResolved(s, bp, ad) ==
    [xray EXCEPT !.blueprint = IF bp = None THEN None
                               ELSE Some([code |-> s.code, image |-> bp[1]]),
                 !.audit = IF ad = None THEN None
                           ELSE Some([code |-> s.code, report |-> ad[1]]),
                 !.loading = FALSE]

\* The four setters handleScan starts with
ScanStarted ==
    [xray EXCEPT !.loading = TRUE,
                 !.blueprint = None,
                 !.audit = None,
                 !.activeTab = "blueprint"]

\* handleScan up to its await; the button is disabled while loading and for
\* a blank text. When getAiClient throws (ai = FALSE) both promises are
\* rejected before any request, and the catch and the finally run before
\* the next event
handleScan(ai) ==
    /\ XRayOnly
    /\ XRayShown
    /\ ~xray.loading
    /\ IF Trim(xray.code) = EmptyStr
       THEN UNCHANGED <<xray, scans>>
       ELSE IF ai
            THEN /\ xray' = ScanStarted
                 /\ scans' = scans \cup {Scan(xray.code)}
            ELSE /\ xray' = [ScanStarted EXCEPT !.loading = FALSE]
                 /\ UNCHANGED scans

\* One of the two promises of s is fulfilled: Promise.all resolves when
\* both are
ScanContinues(s, next) ==
    IF next.bp.state = "fulfilled" /\ next.ad.state = "fulfilled"
    THEN /\ xray' = ScanResolved(s, next.bp.value, next.ad.value)
         /\ scans' = scans \ {s}
    ELSE /\ scans' = (scans \ {s}) \cup {next}
         /\ UNCHANGED xray

\* generateCodeBlueprint returns the image drawn for the code, or null
BlueprintReturns(s, hasImage) ==
    /\ XRayOnly
    /\ s \in scans /\ s.bp.state = "pending"
    /\ ScanContinues(s, [s EXCEPT !.bp = Fulfilled(IF hasImage THEN Some("png") ELSE None)])

\* generateCodeBlueprint rejects: Promise.all rejects at once, whatever
\* auditCode has returned or will return
BlueprintRejects(s) ==
    /\ XRayOnly
    /\ s \in scans /\ s.bp.state = "pending"
    /\ xray' = ScanRejected(s)
    /\ scans' = scans \ {s}

\* auditCode returns, whatever its request did
AuditReturns(s, outcome) ==
    /\ XRayOnly
    /\ s \in scans /\ s.ad.state = "pending"
    /\ ScanContinues(s, [s EXCEPT !.ad = Fulfilled(auditCode(outcome).value)])

\* The header and the tabs once the modal is out of the way; leaving
\* CODE_XRAY unmounts the component: its state is gone and the setters of
\* a call still pending do nothing, so the call is dropped
Navigate(mode) ==
    /\ UNCHANGED <<graphVars, parseVars, analyzer, pending, loadMark, gate, auditCall>>
    /\ ~gate.checkingKey
    /\ gate.hasApiKey
    /\ mode # app.currentView
    /\ app' = [app EXCEPT !.currentView = mode]
    /\ IF app.currentView = "CODE_XRAY"
       THEN /\ xray' = XRayInit
            /\ scans' = {}
       ELSE UNCHANGED <<xray, scans>>

InitGate ==
    /\ RestIdle
    /\ xray = XRayInit
    /\ scans = {}
    /\ auditCall = NotCalled
    /\ \E a \in AiStudios, k \in BOOLEAN : gate = GateInit(a, k)

\* The page from its key check to the Code X-Ray
NextPage ==
    \/ checkKey
    \/ CheckKeyResolves
    \/ CheckKeyRejects
    \/ handleConnect
    \/ \E picked \in BOOLEAN : OpenSelectKeyResolves(picked)
    \/ OpenSelectKeyRejects
    \/ onKeySelected
    \/ \E mode \in Views : Navigate(mode)
    \/ \E code \in Codes : setCode(code)
    \/ \E ai \in BOOLEAN : handleScan(ai)
    \/ \E s \in scans, hasImage \in BOOLEAN : BlueprintReturns(s, hasImage)
    \/ \E s \in scans : BlueprintRejects(s)
    \/ \E s \in scans, outcome \in ScanOutcomes : AuditReturns(s, outcome)

\* The effect runs after the first render, a timer that was set fires, and
\* a promise of the host page is taken to settle
GateFairness ==
    /\ WF_vars(checkKey)
    /\ WF_vars(CheckKeyResolves \/ CheckKeyRejects)
    /\ WF_vars((\E picked \in BOOLEAN : OpenSelectKeyResolves(picked)) \/ OpenSelectKeyRejects)
    /\ WF_vars(onKeySelected)
SpecPage == InitGate /\ [][NextPage]_vars /\ GateFairness

Returned == pc = "returned"

-----------------------------------------------------------------------------
(* Vocabulary of the properties, read off the returned graph and the input *)

Nodes == graph.nodes
Links == graph.links
NonRootNodes == {i \in 1..Len(Nodes) : Nodes[i].id # RootId}
LinksInto(id) == {k \in 1..Len(Links) : Links[k].target = id}
LinksFrom(id) == {k \in 1..Len(Links) : Links[k].source = id}
IsLeaf(i) == LinksFrom(Nodes[i].id) = {}
HasDot(str) == \E k \in 1..Len(str) : str[k] = Dot

\* The ids reachable from the ids in S by following links source -> target
RECURSIVE ReachableFrom(_)
ReachableFrom(S) ==
    LET S2 == S \cup {Links[k].target : k \in {j \in 1..Len(Links) : Links[j].source \in S}}
    IN  IF S2 = S THEN S ELSE ReachableFrom(S2)

\* The ids strictly below id
Below(id) == ReachableFrom({Links[k].target : k \in LinksFrom(id)})

\* The entries the function retains
Retained == SubSeq(tree, 1, IF Len(tree) < SliceLimit THEN Len(tree) ELSE SliceLimit)

\* The cumulative path prefixes of a path, as strings: the path cut before each
\* of its separators and at its end, leading separators not counted
RECURSIVE StripLeadingSlashes(_)
StripLeadingSlashes(str) ==
    IF str # << >> /\ Head(str) = Slash THEN StripLeadingSlashes(Tail(str)) ELSE str

PrefixesOf(path) ==
    LET str == StripLeadingSlashes(path)
    IN  {SubSeq(str, 1, k) : k \in {j \in 1..Len(str) : j = Len(str) \/ str[j+1] = Slash}}

RetainedPrefixes == UNION {PrefixesOf(Retained[i].path) : i \in 1..Len(Retained)}

\* A prefix without its last segment ('' for a top-level segment), and that segment
LastSlash(str) == IF \E k \in 1..Len(str) : str[k] = Slash
                  THEN CHOOSE k \in 1..Len(str) :
                           str[k] = Slash /\ \A j \in (k+1)..Len(str) : str[j] # Slash
                  ELSE 0
ParentPrefix(p) == IF LastSlash(p) = 0 THEN << >> ELSE SubSeq(p, 1, LastSlash(p) - 1)
LastSegment(p) == SubSeq(p, LastSlash(p) + 1, Len(p))

-----------------------------------------------------------------------------
(* C1: the returned graph is a tree rooted at 'root': every node other than  *)
(* root is the target of exactly one link, every node is reachable from     *)
(* root along links, and no node is below itself (no cycle).                *)
C1_TreeRootedAtRoot ==
    Returned =>
        /\ \A i \in NonRootNodes : Cardinality(LinksInto(Nodes[i].id)) = 1
        /\ \A i \in NonRootNodes : Nodes[i].id \in ReachableFrom({RootId})
        /\ \A i \in 1..Len(Nodes) : Nodes[i].id \notin Below(Nodes[i].id)

\* A returned graph with a node two links away from root and a root with two children
C1_Witness ==
    /\ Returned
    /\ Cardinality(LinksFrom(RootId)) >= 2
    /\ \E k \in 1..Len(Links) : Links[k].source # RootId

-----------------------------------------------------------------------------
(* C2: no two nodes stand for the same cumulative path prefix: every prefix *)
(* seen has exactly one node (and one link into it), and when a prefix      *)
(* occurs again in a later entry nothing is added for it and its node is    *)
(* the parent of what follows: appending an entry whose path is a prefix    *)
(* already seen returns the same graph, and appending that prefix extended  *)
(* by one new segment adds one node, linked from the prefix's node.         *)
FreshSegment == <<"z">>
C2_OneNodePerPrefix ==
    Returned =>
        /\ Len(Nodes) = Cardinality(DOMAIN pathMap)
        /\ Len(Links) = Len(Nodes) - 1
        /\ \A p \in DOMAIN pathMap :
               Cardinality({i \in 1..Len(Nodes) : Nodes[i].id = pathMap[p]}) = 1
        /\ \A i \in 1..Len(Nodes) : \E p \in DOMAIN pathMap : pathMap[p] = Nodes[i].id
        /\ Len(tree) < SliceLimit =>
               \A p \in DOMAIN pathMap :
                   /\ generateGraphFromTree(Append(tree, Entry(p))) = graph
                   /\ LET longer == IF p = EmptyStr THEN FreshSegment
                                    ELSE p \o <<Slash>> \o FreshSegment
                          g == generateGraphFromTree(Append(tree, Entry(longer)))
                      IN  /\ SubSeq(g.nodes, 1, Len(Nodes)) = Nodes
                          /\ Len(g.nodes) = Len(Nodes) + 1
                          /\ SubSeq(g.links, 1, Len(Links)) = Links
                          /\ Len(g.links) = Len(Links) + 1
                          /\ g.links[Len(g.links)].source = pathMap[p]
                          /\ g.links[Len(g.links)].target = g.nodes[Len(g.nodes)].id

\* The specification's example: 'src/a.ts' and 'src/b.ts' give one 'src' node,
\* parent of both leaves
C2_Witness ==
    /\ Returned
    /\ tree = DedupTree
    /\ Len(Nodes) = 4
    /\ Cardinality({i \in 1..Len(Nodes) : Nodes[i].label = s_src}) = 1
    /\ \E i \in 1..Len(Nodes) :
           /\ Nodes[i].label = s_src
           /\ Nodes[i].group = 5
           /\ Cardinality(LinksFrom(Nodes[i].id)) = 2

-----------------------------------------------------------------------------
(* C3: the graph is built from the first 100 entries only: the output       *)
(* equals the output for the list cut to its first 100 entries, every       *)
(* prefix of those entries has a node, and every node stands for a prefix   *)
(* of one of them (a prefix met only in later entries has none).            *)
C3_FirstHundredOnly ==
    Returned =>
        /\ graph = generateGraphFromTree(Retained)
        /\ RetainedPrefixes \subseteq DOMAIN pathMap
        /\ DOMAIN pathMap \subseteq RetainedPrefixes \cup {EmptyStr}
        /\ Len(Nodes) = 1 + Cardinality(RetainedPrefixes)

\* A list of more than 100 entries with a path after the 100th that has no node
C3_Witness ==
    /\ Returned
    /\ Len(tree) > SliceLimit
    /\ \E j \in (SliceLimit + 1)..Len(tree) :
           /\ tree[j].path # EmptyStr
           /\ tree[j].path \notin DOMAIN pathMap
           /\ \A i \in 1..Len(Nodes) : Nodes[i].label # tree[j].path

-----------------------------------------------------------------------------
(* C4: every non-root node that has at least one child has group 5,         *)
(* whatever its name and whatever the order of the entries.                 *)
\* It is stated for the lists whose paths have no empty segment, where the
\* empty-segment nodes of C7 play no part.
NoEmptySegment(path) ==
    /\ path # EmptyStr
    /\ path[1] # Slash
    /\ path[Len(path)] # Slash
    /\ \A k \in 1..(Len(path) - 1) : ~(path[k] = Slash /\ path[k+1] = Slash)
C4_ParentsHaveGroup5 ==
    (Returned /\ \A j \in 1..Len(tree) : NoEmptySegment(tree[j].path)) =>
        \A i \in NonRootNodes : ~IsLeaf(i) => Nodes[i].group = 5

-----------------------------------------------------------------------------
(* C5: a file node whose name contains no '.' has group 1, whatever the     *)
(* name is. The nodes without children are file nodes: each was added as    *)
(* the last segment of the entry that introduced it.                        *)
C5_DotlessFileHasGroup1 ==
    Returned =>
        \A i \in NonRootNodes :
            (IsLeaf(i) /\ ~HasDot(Nodes[i].label)) => Nodes[i].group = 1

-----------------------------------------------------------------------------
(* C6: for a file node named <name>.<ext> the group is decided by the text  *)
(* after the last '.', compared case-sensitively: ts, tsx, js, jsx give 2;  *)
(* css, scss, html give 3; json, yml, config give 4; anything else, the     *)
(* empty text and upper-case variants included, gives 1. A node without     *)
(* children is a file node; a node with children is either a folder (5) or  *)
(* a file node that a later entry extended.                                 *)
LastDot(str) == CHOOSE k \in 1..Len(str) :
                    str[k] = Dot /\ \A j \in (k+1)..Len(str) : str[j] # Dot
AfterLastDot(str) == SubSeq(str, LastDot(str) + 1, Len(str))
GroupOfExtension(ext) ==
    IF ext \in {s_ts, s_tsx, s_js, s_jsx} THEN 2
    ELSE IF ext \in {s_css, s_scss, s_html} THEN 3
    ELSE IF ext \in {s_json, s_yml, s_config} THEN 4
    ELSE 1
C6_GroupByLastExtension ==
    Returned =>
        \A i \in NonRootNodes :
            HasDot(Nodes[i].label) =>
                LET g == GroupOfExtension(AfterLastDot(Nodes[i].label))
                IN  IF IsLeaf(i) THEN Nodes[i].group = g
                    ELSE Nodes[i].group \in {5, g}

\* The specification's examples: 'styles/app.css' gives a leaf of group 3 and
\* 'config/settings.json' a leaf of group 4
C6_Witness ==
    /\ Returned
    /\ tree = ClassifyTree
    /\ \E i \in NonRootNodes :
           IsLeaf(i) /\ Nodes[i].label = s_app_css /\ Nodes[i].group = 3
    /\ \E i \in NonRootNodes :
           IsLeaf(i) /\ Nodes[i].label = s_settings_json /\ Nodes[i].group = 4

-----------------------------------------------------------------------------
(* C7: no node is created for an empty path segment: the output for a list  *)
(* equals the output for the same list with the empty segments of every     *)
(* path removed, and no node has an empty label.                            *)
\* A path with its leading and trailing separators removed and every run
\* of separators inside it reduced to one
RECURSIVE CollapseSlashes(_)
CollapseSlashes(str) ==
    IF str = << >> THEN << >>
    ELSE IF Head(str) = Slash
         THEN LET rest == StripLeadingSlashes(str)
              IN  IF rest = << >> THEN << >> ELSE <<Slash>> \o CollapseSlashes(rest)
         ELSE <<Head(str)>> \o CollapseSlashes(Tail(str))
WithoutEmptySegments(path) == CollapseSlashes(StripLeadingSlashes(path))
C7_NoNodeForEmptySegment ==
    Returned =>
        /\ \A i \in 1..Len(Nodes) : Nodes[i].label # EmptyStr
        /\ graph = generateGraphFromTree(
               [j \in 1..Len(tree) |-> Entry(WithoutEmptySegments(tree[j].path))])


-----------------------------------------------------------------------------
(* C8: links connect exactly each path prefix to its immediate parent       *)
(* prefix: every cumulative prefix p of every retained entry has a node,    *)
(* the single link into that node comes from the node of p without its last *)
(* segment ('root' for a top-level segment), and there is no other link.    *)
(* The cumulative prefixes are the ones the function keys its nodes by:     *)
(* the path cut at its separators, leading separators dropped.              *)
C8_LinksFollowPrefixes ==
    Returned =>
        /\ RetainedPrefixes \subseteq DOMAIN pathMap
        /\ \A p \in RetainedPrefixes :
               /\ ParentPrefix(p) \in DOMAIN pathMap
               /\ \E k \in 1..Len(Links) :
                      /\ LinksInto(pathMap[p]) = {k}
                      /\ Links[k].source = pathMap[ParentPrefix(p)]
                      /\ Links[k].value = 1
        /\ \A k \in 1..Len(Links) :
               \E p \in RetainedPrefixes : Links[k].target = pathMap[p]
        /\ Len(Links) = Cardinality(RetainedPrefixes)

\* The specification's scenario: src/index.ts, src/utils/helpers.ts, package.json
\* give 6 nodes and 5 links, helpers.ts under utils under src under root
C8_Witness ==
    /\ Returned
    /\ tree = EndToEndTree
    /\ Len(Nodes) = 6
    /\ Len(Links) = 5
    /\ \E a, b, c \in 1..Len(Links) :
           /\ Links[a].source = RootId
           /\ Links[a].target = Links[b].source
           /\ Links[b].target = Links[c].source
           /\ \E i \in NonRootNodes :
                  Nodes[i].id = Links[c].target /\ Nodes[i].label = s_helpers_ts
    /\ \E a \in 1..Len(Links), i \in NonRootNodes :
           /\ Links[a].source = RootId
           /\ Links[a].target = Nodes[i].id
           /\ Nodes[i].label = s_package_json

-----------------------------------------------------------------------------
(* C9: two nodes are distinct whenever their cumulative prefixes differ,    *)
(* also when their labels are equal: any two different prefixes of the      *)
(* retained entries have two different nodes, each labelled with the last   *)
(* segment of its prefix.                                                   *)
C9_DistinctPrefixesDistinctNodes ==
    Returned =>
        \A p, q \in RetainedPrefixes :
            p # q =>
                /\ p \in DOMAIN pathMap
                /\ q \in DOMAIN pathMap
                /\ \E i, j \in NonRootNodes :
                       /\ i # j
                       /\ Nodes[i].id = pathMap[p]
                       /\ Nodes[j].id = pathMap[q]
                       /\ Nodes[i].id # Nodes[j].id
                       /\ Nodes[i].label = LastSegment(p)
                       /\ Nodes[j].label = LastSegment(q)

\* 'a/x.ts' and 'b/x.ts': two nodes labelled 'x.ts', one under 'a', one under 'b'
C9_Witness ==
    /\ Returned
    /\ tree = SameLabelTree
    /\ \E i, j \in NonRootNodes, k, l \in 1..Len(Links), a, b \in NonRootNodes :
           /\ i # j
           /\ Nodes[i].label = s_x_ts /\ Nodes[j].label = s_x_ts
           /\ Nodes[a].label = <<"a">> /\ Nodes[b].label = <<"b">>
           /\ Links[k].source = Nodes[a].id /\ Links[k].target = Nodes[i].id
           /\ Links[l].source = Nodes[b].id /\ Links[l].target = Nodes[j].id

-----------------------------------------------------------------------------
(* C10: for every input, empty or not, the output has exactly one node with *)
(* id 'root'; it has group 0 and label 'root', is the first node of the     *)
(* list, and is the target of no link.                                      *)
C10_OneRootFirstNoParent ==
    Returned =>
        /\ {i \in 1..Len(Nodes) : Nodes[i].id = RootId} = {1}
        /\ Nodes[1].group = 0
        /\ Nodes[1].label = RootLabel
        /\ LinksInto(RootId) = {}

\* A non-empty input with an entry whose path is '' or starts with '/', the
\* paths whose first cumulative path is the one registered for root
C10_Witness ==
    /\ Returned
    /\ Len(Nodes) >= 3
    /\ \E j \in 1..Len(tree) : tree[j].path = EmptyStr \/ Head(tree[j].path) = Slash

-----------------------------------------------------------------------------
(* C12: in every output the node ids are pairwise distinct, and the source  *)
(* and the target of every link are ids of nodes of the node list.          *)
NodeIds == {Nodes[i].id : i \in 1..Len(Nodes)}

C12_IdsDistinctLinksClosed ==
    Returned =>
        /\ Cardinality(NodeIds) = Len(Nodes)
        /\ \A l \in 1..Len(Links) :
               Links[l].source \in NodeIds /\ Links[l].target \in NodeIds

\* An output with several nodes below root and a link that does not start at root
C12_Witness ==
    /\ Returned
    /\ Len(Nodes) >= 4
    /\ \E l \in 1..Len(Links) : Links[l].source # RootId

-----------------------------------------------------------------------------
(* C13: called with an empty list, generateGraphFromTree returns exactly    *)
(* one node, the root node, and no link.                                    *)
C13_EmptyListGivesRootOnly ==
    (Returned /\ tree = << >>) =>
        /\ Len(Nodes) = 1
        /\ Nodes[1] = RootNode
        /\ Links = << >>

C13_Witness == Returned /\ tree = << >> /\ Len(graph.nodes) = 1

-----------------------------------------------------------------------------
(* C14: an entry whose path is '' makes no call fail and adds no node and   *)
(* no link: for a list of at most 100 entries the output is the output for  *)
(* the list without its entries of path ''.                                 *)
HasPath(e) == e.path # EmptyStr
WithoutEmptyPaths(t) == SelectSeq(t, HasPath)

C14_EmptyPathAddsNothing ==
    (Returned /\ Len(tree) <= SliceLimit) =>
        /\ graph = generateGraphFromTree(WithoutEmptyPaths(tree))
        /\ Len(Nodes) <= 1 + Cardinality(UNION {PrefixesOf(tree[j].path) :
                                 j \in {k \in 1..Len(tree) : HasPath(tree[k])}})

\* A list with an entry of path '' between entries that do add nodes
C14_Witness ==
    /\ Returned
    /\ Len(tree) <= SliceLimit
    /\ Len(Nodes) >= 2
    /\ \E j \in 1..Len(tree) : tree[j].path = EmptyStr
    /\ WithoutEmptyPaths(tree) # tree

-----------------------------------------------------------------------------
(* C16: the label of every non-root node is the last segment of the         *)
(* cumulative path the node was made for, so it holds no separator and is   *)
(* never a longer part of the path.                                         *)
C16_LabelIsLastSegment ==
    Returned =>
        /\ \A p \in DOMAIN pathMap \ {EmptyStr} :
               \A i \in 1..Len(Nodes) :
                   Nodes[i].id = pathMap[p] =>
                       /\ Nodes[i].label = LastSegment(p)
                       /\ ~Includes(Nodes[i].label, Slash)
        /\ \A i \in NonRootNodes :
               \E p \in DOMAIN pathMap \ {EmptyStr} : Nodes[i].id = pathMap[p]

\* A node made for a cumulative path of two segments or more
C16_Witness ==
    /\ Returned
    /\ \E p \in DOMAIN pathMap \ {EmptyStr} :
           /\ Includes(p, Slash)
           /\ LastSegment(p) # EmptyStr
           /\ \E i \in NonRootNodes :
                  Nodes[i].id = pathMap[p] /\ Nodes[i].label = LastSegment(p)

-----------------------------------------------------------------------------
(* C11: the ids depend only on the first-seen order of the distinct         *)
(* cumulative paths: the k-th newly seen one gets 'node_k', k counted from  *)
(* 1 inside each call, and it is node k+1 of the list. A second call in the *)
(* same session on the same list, duplicate paths included, returns the     *)
(* same nodes, ids and links. Checked under SpecSession.                    *)
FirstEntryWith(p) ==
    CHOOSE j \in 1..Len(Retained) :
        /\ p \in PrefixesOf(Retained[j].path)
        /\ \A i \in 1..(j-1) : p \notin PrefixesOf(Retained[i].path)

SeenBefore(q, p) ==
    \/ FirstEntryWith(q) < FirstEntryWith(p)
    \/ FirstEntryWith(q) = FirstEntryWith(p) /\ Len(q) < Len(p)

FirstSeenRank(p) == 1 + Cardinality({q \in RetainedPrefixes : SeenBefore(q, p)})

C11_IdsByFirstSeenOrder ==
    Returned =>
        /\ \A p \in RetainedPrefixes :
               /\ pathMap[p] = NodeId(FirstSeenRank(p))
               /\ Nodes[FirstSeenRank(p) + 1].id = NodeId(FirstSeenRank(p))
        /\ (calls >= 2 /\ tree = prevTree) => graph = prevGraph

\* The second call of a session on the list with a duplicate path
C11_Witness ==
    /\ Returned
    /\ calls = 2
    /\ tree = DedupTree
    /\ prevTree = DedupTree
    /\ prevGraph = graph
    /\ Len(Nodes) >= 3

-----------------------------------------------------------------------------
(* C17: a call leaves its input unchanged (the list, its length and every   *)
(* entry) and reads nothing a call before it left behind: after each call   *)
(* of a session the map holds '' and the cumulative paths of this call's    *)
(* list and nothing else, and there is one node for each of them.           *)
(* Checked under SpecSession.                                               *)
PrefixesOfTree(t) ==
    UNION {PrefixesOf(t[j].path) :
               j \in 1..(IF Len(t) < SliceLimit THEN Len(t) ELSE SliceLimit)}

C17_InputUnchangedNoSharedState ==
    [][(pc = "idle" /\ pc' = "returned") =>
          /\ tree' = tree
          /\ Len(tree') = Len(tree)
          /\ \A j \in 1..Len(tree) : tree'[j] = tree[j]
          /\ DOMAIN pathMap' = PrefixesOfTree(tree) \cup {EmptyStr}
          /\ Len(graph'.nodes) = 1 + Cardinality(PrefixesOfTree(tree))
          /\ Len(graph'.links) = Cardinality(PrefixesOfTree(tree))]_vars

\* The second call of a session, on another list than the first, none empty
C17_Witness ==
    /\ Returned
    /\ calls = 2
    /\ prevTree # tree
    /\ Len(prevGraph.nodes) >= 2
    /\ Len(Nodes) >= 2
    /\ \E p \in DOMAIN pathMap : \A j \in 1..Len(prevTree) : p \notin PrefixesOf(prevTree[j].path) \cup {EmptyStr}

-----------------------------------------------------------------------------
(* C15: parseRepoInput returns owner and repo when the trimmed input is a   *)
(* bare 'owner/repo' token or an http(s) URL on github.com whose path       *)
(* starts with /owner/repo, in both forms with or without one trailing      *)
(* slash; owner and repo are the first two path components. Checked under   *)
(* SpecParse.                                                               *)
OneSlashOrNone == {EmptyStr, <<Slash>>}

BareTokenOf(o, r) ==
    \E l \in Pads, t \in Pads, e \in OneSlashOrNone :
        input = l \o o \o <<Slash>> \o r \o e \o t

GithubUrlOf(o, r) ==
    \E l \in Pads, t \in Pads, e \in OneSlashOrNone, sc \in Schemes, x \in Rests :
        input = l \o sc \o s_github_com \o <<Slash>> \o o \o <<Slash>> \o r \o x \o e \o t

-----------------------------------------------------------------------------
(* C18: whenever launchDevStudio sets devStudioData, graphData is           *)
(* generateGraphFromTree of the fileTree handed with it, that fileTree is   *)
(* currentFileTree at the click and repoName is currentRepoName at the      *)
(* click; no graph of an earlier file tree is handed on. Checked under      *)
(* SpecAnalyzer.                                                            *)
C18_GraphOfTheTreeHandedOver ==
    [][app'.devStudioData # app.devStudioData =>
          LET data == app'.devStudioData[1]
          IN  /\ analyzer.currentFileTree = Some(data.fileTree)
              /\ data.repoName = analyzer.currentRepoName
              /\ data.graphData = generateGraphFromTree(data.fileTree)
              /\ Len(data.graphData.nodes) = 1 + Cardinality(PrefixesOfTree(data.fileTree))
              /\ app'.currentView = "DEV_STUDIO"]_vars

\* The Dev Studio entered for the second repository analysed, after it was
\* entered for the first
C18_Witness ==
    /\ app.currentView = "DEV_STUDIO"
    /\ app.devStudioData # None
    /\ Len(app.repoHistory) = 2
    /\ app.repoHistory[1].repoName # app.repoHistory[2].repoName
    /\ app.devStudioData[1].repoName = app.repoHistory[1].repoName
    /\ app.devStudioData[1].fileTree = ListingOf(app.repoHistory[1].repoName)

-----------------------------------------------------------------------------
(* C19: when an analysis fails after the input was parsed (the listing      *)
(* request rejects, the listing is empty, the image request rejects or      *)
(* returns no payload), handleAnalyze sets error to a message, leaves       *)
(* infographicData as it is and adds no history item; for an empty listing  *)
(* no image request is started. Checked under SpecAnalyzer, for calls of    *)
(* the mounted component.                                                   *)
AnalysisFails(a) ==
    \/ \E m \in RejectMessages, c \in BOOLEAN : FetchRejects(a, m, c)
    \/ FetchEmpty(a)
    \/ \E m \in RejectMessages, c \in BOOLEAN : ImageRejects(a, m, c)
    \/ ImageReturnsNull(a)

C19_FailedAnalysisSetsErrorOnly ==
    [][\A a \in pending :
          (a.mounted /\ a.kind = "analyze" /\ a \notin pending' /\ AnalysisFails(a)) =>
              /\ analyzer'.error # None
              /\ analyzer'.infographicData = analyzer.infographicData
              /\ app'.repoHistory = app.repoHistory
              /\ FetchEmpty(a) => \A b \in pending' : b.at = "image" => b \in pending]_vars

\* An empty listing has just been reported: the error is its message, no
\* image is shown and no image request is pending
C19_Witness ==
    /\ analyzer.error = Some(ErrNoFiles)
    /\ analyzer.infographicData = None
    /\ ~analyzer.loading
    /\ pending = {}
    /\ analyzer.currentRepoName = s_e

-----------------------------------------------------------------------------
(* C20: after loadFromHistory(item), currentFileTree stays null, and so     *)
(* launchDevStudio does nothing, until a handleAnalyze started after the    *)
(* history load has fetched a file tree, also when an analysis was in       *)
(* flight at the time of the load. Checked under SpecAnalyzer: loadMark is  *)
(* set by the load and cleared by the fetch of a later handleAnalyze.       *)
C20_NoTreeUntilAnalysedAgain ==
    loadMark # None => analyzer.currentFileTree = None

-----------------------------------------------------------------------------
(* C21: repoHistory only grows, newest first: a step leaves it as it is or  *)
(* puts exactly one new item in front of the items it held, in their order; *)
(* every generation that returns an image (2D by handleAnalyze, 3D by       *)
(* handleGenerate3D) puts the item of that image at the front; a change of  *)
(* the view leaves the history as it is. Checked under SpecAnalyzer.        *)
C21_HistoryGrowsAtFront ==
    [][/\ \/ app'.repoHistory = app.repoHistory
          \/ /\ Len(app'.repoHistory) = Len(app.repoHistory) + 1
             /\ Tail(app'.repoHistory) = app.repoHistory
       /\ app'.currentView # app.currentView => app'.repoHistory = app.repoHistory
       /\ \A a \in pending :
              (a \notin pending' /\ (ImageResolves(a) \/ Render3DResolves(a))) =>
                  /\ Len(app'.repoHistory) = Len(app.repoHistory) + 1
                  /\ app'.repoHistory[1] =
                         [repoName  |-> a.repo,
                          imageData |-> Image(a.repo, a.fileTree, a.kind = "render3D"),
                          is3D      |-> a.kind = "render3D"]]_vars

\* The 3D image of a repository stands in front of its 2D image, generated
\* before it, and the view has been changed since
C21_Witness ==
    /\ Len(app.repoHistory) = 2
    /\ app.repoHistory[1].is3D
    /\ ~app.repoHistory[2].is3D
    /\ app.currentView = "HOME"

-----------------------------------------------------------------------------
(* C22: whenever currentFileTree is not null it is the file tree fetched    *)
(* for the repository named by currentRepoName, under every interleaving of *)
(* handleAnalyze and loadFromHistory, so that launchDevStudio never hands   *)
(* over the tree of one repository under the name of another. Checked under *)
(* SpecAnalyzer, where each repository name has one listing.                *)
C22_TreeBelongsToNamedRepo ==
    analyzer.currentFileTree # None =>
        analyzer.currentFileTree = Some(ListingOf(analyzer.currentRepoName))

\* The Dev Studio holds the tree of one repository under the name of another
C22_DevStudioMixesRepos ==
    /\ app.devStudioData # None
    /\ app.devStudioData[1].fileTree # ListingOf(app.devStudioData[1].repoName)

-----------------------------------------------------------------------------
(* C23: whenever infographic3DData is not null after an analysis (no        *)
(* history item loaded since), it is a 3D image generated for the same      *)
(* repository and file tree as the 2D infographic displayed: the answer of  *)
(* a 3D request started for one repository that arrives after a new         *)
(* handleAnalyze was submitted never becomes the 3D image shown for the new *)
(* repository. Checked under SpecOverlap.                                   *)
C23_3DImageOfDisplayedAnalysis ==
    (/\ loadMark = None
     /\ analyzer.infographic3DData # None
     /\ analyzer.infographicData # None) =>
        /\ analyzer.infographic3DData[1].is3D
        /\ analyzer.infographic3DData[1].repoName = analyzer.infographicData[1].repoName
        /\ analyzer.infographic3DData[1].fileTree = analyzer.infographicData[1].fileTree

\* A 3D image follows the 2D image of the same analysis
C23_3DAfterItsAnalysis ==
    /\ loadMark = None
    /\ analyzer.infographic3DData # None
    /\ analyzer.infographicData # None
    /\ analyzer.infographic3DData[1].repoName = analyzer.infographicData[1].repoName

-----------------------------------------------------------------------------
(* C24: every handleAnalyze that sets loading to true is followed, once its *)
(* pending request has settled, by loading = false and loadingStage = '',   *)
(* on every path (success, empty listing, no image, rejection); likewise    *)
(* generating3D is false once the request of handleGenerate3D has settled.  *)
(* Checked under SpecAnalyzer: with no call of the mounted component        *)
(* pending, the flags are down.                                             *)
MountedPending(kind) == {a \in pending : a.mounted /\ a.kind = kind}
C24_FlagsDownOnceSettled ==
    /\ MountedPending("analyze") = {} =>
           analyzer.loading = FALSE /\ analyzer.loadingStage = ""
    /\ MountedPending("render3D") = {} => analyzer.generating3D = FALSE

\* An analysis has failed for want of an image after a 3D image was
\* generated for an earlier one, and nothing is pending
C24_Witness ==
    /\ pending = {}
    /\ analyzer.error = Some(ErrNoVisual)
    /\ \E i \in 1..Len(app.repoHistory) : app.repoHistory[i].is3D
    /\ ~analyzer.loading
    /\ ~analyzer.generating3D

-----------------------------------------------------------------------------
(* C28: when the input cannot be parsed, handleAnalyze sets error to        *)
(* 'Invalid format...', clears infographicData, infographic3DData and       *)
(* currentFileTree, never sets loading to true and starts no request.       *)
(* Checked under SpecAnalyzer for every submit of an input parseRepoInput   *)
(* returns null for.                                                        *)
C28_InvalidInputStartsNothing ==
    [][(/\ AnalyzerShown
        /\ parseRepoInput(analyzer.repoInput) = Null
        /\ handleAnalyze) =>
           /\ analyzer'.error = Some(ErrInvalidFormat)
           /\ analyzer'.infographicData = None
           /\ analyzer'.infographic3DData = None
           /\ analyzer'.currentFileTree = None
           /\ analyzer'.loading = FALSE
           /\ analyzer'.loadingStage = ""
           /\ pending' = pending
           /\ app' = app]_vars

\* 'o' was submitted after an analysis had shown its results: the error is
\* set, the results are gone, nothing is pending
C28_Witness ==
    /\ analyzer.repoInput = <<"o">>
    /\ analyzer.error = Some(ErrInvalidFormat)
    /\ analyzer.infographicData = None
    /\ analyzer.currentFileTree = None
    /\ Len(app.repoHistory) = 1
    /\ pending = {}
    /\ ~analyzer.loading

-----------------------------------------------------------------------------
(* C25: after handleConnect the modal does not stay connecting for ever:    *)
(* either onKeySelected is eventually called (hasApiKey becomes true) or    *)
(* isConnecting returns to false, also when window.aistudio or its          *)
(* openSelectKey is missing. Checked under SpecPage, where a pending        *)
(* promise settles and a timer fires.                                       *)
C25_ConnectingEnds ==
    gate.isConnecting ~> (gate.hasApiKey \/ ~gate.isConnecting)

\* The same on the pages that have window.aistudio.openSelectKey
C25_ConnectingEndsWithSelector ==
    (gate.isConnecting /\ HasMethod("openSelectKey")) ~>
        (gate.hasApiKey \/ ~gate.isConnecting)

\* The modal is connecting with no call pending and no timer set
C25_StuckConnecting ==
    /\ gate.isConnecting
    /\ gate.handleConnect = "idle"
    /\ ~gate.hasApiKey

-----------------------------------------------------------------------------
(* C26: handleScan stores its two results together. When                    *)
(* generateCodeBlueprint rejects, neither blueprint nor audit is set: both  *)
(* stay null, even though auditCode has returned a value. When it does not  *)
(* reject, both are set from the same scan, to what the two calls of that   *)
(* scan returned. loading is false again in every case. Checked under       *)
(* SpecPage for every step that ends a call of handleScan.                  *)
ShownFor(s, value, field) ==
    IF value = None THEN None
    ELSE Some([code |-> s.code] @@ (field :> value[1]))

C26_ScanStoresBothOrNeither ==
    [][/\ \A s \in scans :
              /\ BlueprintRejects(s) =>
                     /\ xray'.blueprint = None
                     /\ xray'.audit = None
                     /\ xray'.loading = FALSE
              /\ \A h \in BOOLEAN :
                     (s.ad.state = "fulfilled" /\ BlueprintReturns(s, h)) =>
                         /\ xray'.blueprint = ShownFor(s, IF h THEN Some("png") ELSE None, "image")
                         /\ xray'.audit = ShownFor(s, s.ad.value, "report")
                         /\ xray'.loading = FALSE
              /\ \A o \in ScanOutcomes :
                     AuditReturns(s, o) =>
                         IF s.bp.state = "fulfilled"
                         THEN /\ xray'.blueprint = ShownFor(s, s.bp.value, "image")
                              /\ xray'.audit = ShownFor(s, auditCode(o).value, "report")
                              /\ xray'.loading = FALSE
                         ELSE xray' = xray
       /\ (Trim(xray.code) # EmptyStr /\ handleScan(FALSE)) =>
              /\ xray'.blueprint = None
              /\ xray'.audit = None
              /\ xray'.loading = FALSE
       /\ scans' = {} => xray'.loading = FALSE]_vars

\* A scan has ended with nothing to show, the code edited meanwhile
C26_Witness ==
    /\ xray.activeTab = "blueprint"
    /\ scans = {}
    /\ ~xray.loading
    /\ xray.blueprint = None
    /\ xray.audit = None
    /\ xray.code = <<"g">>

\* Both results of one scan are shown
C26_BothShown ==
    /\ xray.blueprint # None
    /\ xray.audit # None
    /\ xray.blueprint[1].code = xray.audit[1].code
    /\ ~xray.loading

-----------------------------------------------------------------------------
(* C27: auditCode never rejects once its request is started: when the       *)
(* request fails or the response text is not valid JSON it returns the      *)
(* fixed fallback audit (score 0, complexity 'Unknown', vulnerabilities     *)
(* ['Audit failed'], no optimizations), and it returns null only when the   *)
(* response has no text. Checked under SpecAudit; the texts that are not    *)
(* valid JSON are the JSON texts cut off before their end.                  *)
CutOff(text) ==
    \E value \in JsonValues :
        \E k \in 1..(Len(JsonText(value)) - 1) : text = SubSeq(JsonText(value), 1, k)
NoText(outcome) == outcome.text = None \/ outcome.text = Some(EmptyStr)

C27_NeverRejects ==
    auditCall.called => ~auditCall.result.rejects

C27_FallbackOnFailure ==
    (/\ auditCall.called
     /\ \/ auditCall.outcome.settled = "rejected"
        \/ auditCall.outcome.text # None /\ CutOff(auditCall.outcome.text[1])) =>
        /\ auditCall.result = AuditFallback
        /\ auditCall.result.value[1].score = 0
        /\ auditCall.result.value[1].complexity = <<"U", "n", "k", "n", "o", "w", "n">>
        /\ auditCall.result.value[1].vulnerabilities = <<<<"A", "u", "d", "i", "t", " ", "f", "a", "i", "l", "e", "d">>>>
        /\ auditCall.result.value[1].optimizations = << >>

C27_NullOnlyWithoutText ==
    (/\ auditCall.called
     /\ auditCall.outcome.settled = "resolved"
     /\ auditCall.result.value = None) => NoText(auditCall.outcome)

C27_AuditCodeFallsBack ==
    /\ C27_NeverRejects
    /\ C27_FallbackOnFailure
    /\ C27_NullOnlyWithoutText

\* auditCode has returned null for a response that has a text
C27_NullForAText ==
    /\ auditCall.called
    /\ auditCall.result.value = None
    /\ auditCall.outcome.text = Some(s_null)

=============================================================================
